---- MODULE Spec2Model ----
(***************************************************************************)
(* Model of log_analyzer.py: one run of main().                            *)
(*                                                                         *)
(* Times are exact fixed-point numbers in ticks of 0.0001 s; a value       *)
(* rounded to 3 decimals is an integer number of thousandths.  Optional    *)
(* values (Python's None) are sequences of length 0 or 1.  A dict is the   *)
(* sequence of its items in insertion order.                               *)
(***************************************************************************)
EXTENDS Integers, Sequences, FiniteSets, TLC

\* ---------------------------------------------------------------- bounds
MaxFiles == 3
MaxLines == 3
MaxReportSize == 2

\* ten ticks of 0.0001 s make one thousandth: round(x, 3)
TicksPerMilli == 10

None == << >>
Some(x) == << x >>

\* ------------------------------------------------------- input universes
Prefix == "nginx-access-ui.log-"

\* A directory entry name, split where FILE_NAME_REGEXP splits it: the text
\* before the date, the characters of the date field (0..9 are the digits,
\* anything larger is another character) and what follows the date field.
Name(stem, text, ext) == [stem |-> stem, text |-> text, ext |-> ext]

FileNames ==
  { Name(Prefix, <<2,0,2,3,0,1,0,1>>, ""),
    Name(Prefix, <<2,0,2,3,0,1,0,1>>, ".gz"),
    Name(Prefix, <<2,0,2,3,0,2,1,5>>, ".gz"),
    Name(Prefix, <<2,0,2,3,0,2,3,0>>, ""),
    Name(Prefix, <<2,0,2,3,1,3,0,1>>, ".gz"),
    Name(Prefix, <<11,10,13>>, ""),
    Name(Prefix, <<2,0,2,4,0,1,0,1>>, ".bz2"),
    Name("access.log-", <<2,0,2,4,0,1,0,1>>, "") }

Urls == {"/a", "/b", "/c"}
Durations == {0, 12, 20}

\* A raw log line: whether NGINX_LOG_FORMAT_REGEXP matches it, and the text
\* of its path and request_time fields.
RawLines ==
  [ok : {TRUE}, path : Urls, request_time : Durations]
    \cup {[ok |-> FALSE, path |-> "/a", request_time |-> 12]}

ErrorsLimits == {None, Some(0), Some(64)}

\* ------------------------------------------------------------- variables
VARIABLES
  dirExists,        \* os.path.isdir(LOG_DIR)
  listing,          \* os.listdir(LOG_DIR), in listing order
  log_len,          \* number of lines of the selected log file
  errors_limit,     \* config["ERRORS_LIMIT"], in percent
  report_size,      \* config["REPORT_SIZE"]
  reportDirExists,  \* os.path.isdir(REPORT_DIR)
  templateExists,   \* os.path.isfile(REPORT_DIR/report.html)
  reports,          \* report files of REPORT_DIR: date -> content
  pc,               \* "scan", "read", "done"
  idx,              \* position of the for loop of find_last_log_file
  last_log_info,    \* None or Some([file_path, date])
  lines,            \* the raw lines read so far
  total, processed, processed_request_time,
  statistics,       \* dict url -> list of request_time
  enriched_statistics,
  top_statistics,
  outcome           \* how main ended

vars == << dirExists, listing, log_len, errors_limit, report_size,
           reportDirExists, templateExists, reports, pc, idx, last_log_info,
           lines, total, processed, processed_request_time, statistics,
           enriched_statistics, top_statistics, outcome >>

env == << dirExists, listing, log_len, errors_limit, report_size,
          templateExists >>

\* ------------------------------------------------- find_last_log_file
IsDigit(c) == c \in 0..9

\* re.match(FILE_NAME_REGEXP, file_name)
MatchesFileName(n) ==
  /\ n.stem = Prefix
  /\ Len(n.text) = 8
  /\ \A k \in 1..Len(n.text) : IsDigit(n.text[k])
  /\ n.ext \in {"", ".gz"}

IsLeap(y) == (y % 4 = 0 /\ y % 100 # 0) \/ y % 400 = 0

DaysInMonth(y, m) ==
  IF m = 2 THEN (IF IsLeap(y) THEN 29 ELSE 28)
  ELSE IF m \in {4, 6, 9, 11} THEN 30 ELSE 31

\* the fields strptime(text, "%Y%m%d") reads from 8 digits
ParseDate(t) ==
  [year  |-> t[1] * 1000 + t[2] * 100 + t[3] * 10 + t[4],
   month |-> t[5] * 10 + t[6],
   day   |-> t[7] * 10 + t[8]]

IsValidDateNoMonthLength(d) ==
  /\ d.year >= 1
  /\ d.month \in 1..12
  /\ d.day \in 1..31

\* strptime(...).date() does not raise ValueError
IsValidDate(d) ==
  /\ d.year >= 1
  /\ d.month \in 1..12
  /\ d.day >= 1
  /\ d.day <= DaysInMonth(d.year, d.month)

\* date.__gt__
DateGreater(a, b) ==
  \/ a.year > b.year
  \/ a.year = b.year /\ a.month > b.month
  \/ a.year = b.year /\ a.month = b.month /\ a.day > b.day

ShouldReplaceOnEqual(last, d) ==
  last = None \/ ~ DateGreater(last[1].date, d)

\* not last_log_info or log_date > last_log_info.date
ShouldReplace(last, d) ==
  last = None \/ DateGreater(d, last[1].date)

ScanOneNoMonthLength(last, n) ==
  IF ~ MatchesFileName(n) THEN last
  ELSE IF ~ IsValidDateNoMonthLength(ParseDate(n.text)) THEN last
  ELSE IF ShouldReplace(last, ParseDate(n.text))
       THEN Some([file_path |-> n, date |-> ParseDate(n.text)])
       ELSE last

\* one iteration of the for loop over os.listdir
ScanOne(last, n) ==
  IF ~ MatchesFileName(n) THEN last
  ELSE IF ~ IsValidDate(ParseDate(n.text)) THEN last
  ELSE IF ShouldReplace(last, ParseDate(n.text))
       THEN Some([file_path |-> n, date |-> ParseDate(n.text)])
       ELSE last

\* --------------------------------------------------------- process_line
process_lineIgnoringMatch(line) ==
  Some([url |-> line.path, request_time |-> line.request_time])

\* (path, request_time) if the line matches the format, else None
process_line(line) ==
  IF line.ok
  THEN Some([url |-> line.path, request_time |-> line.request_time])
  ELSE None

\* ---------------------------------------------------- calculate_statistics
RECURSIVE Sum(_)
Sum(s) == IF s = << >> THEN 0 ELSE s[1] + Sum(Tail(s))

RECURSIVE Max(_)
Max(s) ==
  IF Len(s) = 1 THEN s[1]
  ELSE IF s[1] >= Max(Tail(s)) THEN s[1] ELSE Max(Tail(s))

\* index of the item of dict d whose key is url, 0 if there is none
KeyIndex(d, url) ==
  IF \E k \in 1..Len(d) : d[k].url = url
  THEN CHOOSE k \in 1..Len(d) : d[k].url = url
  ELSE 0

AddSampleOverwrite(d, url, t) ==
  IF KeyIndex(d, url) = 0
  THEN Append(d, [url |-> url, data |-> << t >>])
  ELSE [d EXCEPT ![KeyIndex(d, url)].data = << t >>]

\* statistics.setdefault(url, []).append(request_time)
AddSample(d, url, t) ==
  IF KeyIndex(d, url) = 0
  THEN Append(d, [url |-> url, data |-> << t >>])
  ELSE [d EXCEPT ![KeyIndex(d, url)].data = Append(@, t)]

GateAppliesIgnoringNone(limit, tot) == tot > 0

\* errors_limit is not None and total > 0
GateApplies(limit, tot) == limit # None /\ tot > 0

GateTripsAboveLimit(limit, tot, proc) == (tot - proc) * 100 > limit[1] * tot

\* cur_errors_limit = (total - processed) / total is truthy
GateTrips(limit, tot, proc) == (tot - proc) # 0

\* round(): num/den to the nearest integer, an exact half to the even one
RoundHalfEven(num, den) ==
  LET q == num \div den
      r == num % den
  IN  IF 2 * r < den THEN q
      ELSE IF 2 * r > den THEN q + 1
      ELSE IF q % 2 = 0 THEN q ELSE q + 1

\* sorted(data): insertion of x into an ascending list, after its equals
RECURSIVE InsertAsc(_, _)
InsertAsc(s, x) ==
  IF s = << >> THEN << x >>
  ELSE IF x < s[1] THEN << x >> \o s
  ELSE << s[1] >> \o InsertAsc(Tail(s), x)

RECURSIVE SortAsc(_)
SortAsc(s) ==
  IF s = << >> THEN << >>
  ELSE InsertAsc(SortAsc(SubSeq(s, 1, Len(s) - 1)), s[Len(s)])

median2Unsorted(data) ==
  LET n == Len(data)
      i == n \div 2
  IN  IF n % 2 = 1 THEN 2 * data[i + 1]
      ELSE data[i] + data[i + 1]

\* statistics.median(data), doubled so that it stays an integer
median2(data) ==
  LET s == SortAsc(data)
      n == Len(s)
      i == n \div 2
  IN  IF n % 2 = 1 THEN 2 * s[i + 1]
      ELSE s[i] + s[i + 1]

EntryShareOfRounded(url, data, all_count, all_time_sum) ==
  [url        |-> url,
   count      |-> Len(data),
   count_perc |-> RoundHalfEven(Len(data) * 100 * 1000, all_count),
   time_sum   |-> RoundHalfEven(Sum(data), TicksPerMilli),
   time_perc  |-> RoundHalfEven(
                    RoundHalfEven(Sum(data), TicksPerMilli) * TicksPerMilli
                      * 100 * 1000, all_time_sum),
   time_avg   |-> RoundHalfEven(Sum(data), Len(data) * TicksPerMilli),
   time_max   |-> RoundHalfEven(Max(data), TicksPerMilli),
   time_med   |-> RoundHalfEven(median2(data), 2 * TicksPerMilli)]

\* one item of enriched_statistics; percentages in thousandths of a percent,
\* times in thousandths of a second
Entry(url, data, all_count, all_time_sum) ==
  [url        |-> url,
   count      |-> Len(data),
   count_perc |-> RoundHalfEven(Len(data) * 100 * 1000, all_count),
   time_sum   |-> RoundHalfEven(Sum(data), TicksPerMilli),
   time_perc  |-> RoundHalfEven(Sum(data) * 100 * 1000, all_time_sum),
   time_avg   |-> RoundHalfEven(Sum(data), Len(data) * TicksPerMilli),
   time_max   |-> RoundHalfEven(Max(data), TicksPerMilli),
   time_med   |-> RoundHalfEven(median2(data), 2 * TicksPerMilli)]

DivisionByZeroWithoutRecords(stat, all_time_sum) == all_time_sum = 0

\* time_sum / all_time_sum raises ZeroDivisionError for the first url
DivisionByZero(stat, all_time_sum) == stat # << >> /\ all_time_sum = 0

Enrich(stat, all_count, all_time_sum) ==
  [k \in 1..Len(stat) |->
     Entry(stat[k].url, stat[k].data, all_count, all_time_sum)]

\* --------------------------------------------------------------- main
\* insertion of e into a list sorted by time_sum descending, after its equals
RECURSIVE InsertDesc(_, _)
InsertDesc(s, e) ==
  IF s = << >> THEN << e >>
  ELSE IF e.time_sum > s[1].time_sum THEN << e >> \o s
  ELSE << s[1] >> \o InsertDesc(Tail(s), e)

\* sorted(statistics.values(), key=lambda x: x["time_sum"], reverse=True)
RECURSIVE SortedByTimeSum(_)
SortedByTimeSum(s) ==
  IF s = << >> THEN << >>
  ELSE InsertDesc(SortedByTimeSum(SubSeq(s, 1, Len(s) - 1)), s[Len(s)])

\* [: config["REPORT_SIZE"]]
Truncate(s, n) == SubSeq(s, 1, IF Len(s) < n THEN Len(s) ELSE n)

\* the content render_template writes
Rendered(table) == [run |-> "current", table |-> table]
Previous == [run |-> "previous", table |-> << >>]

\* render_template: open(report_file_path, "w") once the template was read
WriteReport(files, d, content, template) ==
  IF template
  THEN [x \in DOMAIN files \cup {d} |-> IF x = d THEN content ELSE files[x]]
  ELSE files

\* dates of the report files a run may find in REPORT_DIR
ReportDates == { ParseDate(n.text) : n \in { f \in FileNames :
                   MatchesFileName(f) /\ IsValidDate(ParseDate(f.text)) } }

Listings(names, n) ==
  { l \in UNION { [1..k -> names] : k \in 0..n } :
      \A a, b \in 1..Len(l) : a # b => l[a] # l[b] }

\* the state main starts in, shared by the specifications
InitRun ==
  /\ dirExists \in BOOLEAN
  /\ reportDirExists \in BOOLEAN
  /\ templateExists \in BOOLEAN
  /\ reportDirExists = FALSE => templateExists = FALSE
  /\ \E ds \in SUBSET ReportDates :
       /\ reportDirExists = FALSE => ds = {}
       /\ reports = [d \in ds |-> Previous]
  /\ pc = "scan"
  /\ idx = 1
  /\ last_log_info = None
  /\ lines = << >>
  /\ total = 0
  /\ processed = 0
  /\ processed_request_time = 0
  /\ statistics = << >>
  /\ enriched_statistics = << >>
  /\ top_statistics = << >>
  /\ outcome = "running"

\* runs over a few directories and every log file of up to MaxLines lines
Init ==
  /\ InitRun
  /\ listing \in
       { << >>,
         << Name(Prefix, <<2,0,2,3,0,1,0,1>>, "") >>,
         << Name(Prefix, <<11,10,13>>, ""),
            Name(Prefix, <<2,0,2,3,0,2,1,5>>, ".gz"),
            Name(Prefix, <<2,0,2,3,0,1,0,1>>, "") >> }
  /\ dirExists = FALSE => listing = << >>
  /\ log_len \in 0..MaxLines
  /\ errors_limit \in ErrorsLimits
  /\ report_size \in 1..MaxReportSize

\* runs over every directory of up to MaxFiles entries and short log files
InitScan ==
  /\ InitRun
  /\ listing \in Listings(FileNames, MaxFiles)
  /\ dirExists = FALSE => listing = << >>
  /\ log_len \in 0..1
  /\ errors_limit \in {None, Some(64)}
  /\ report_size = 1
  /\ reportDirExists = templateExists

\* find_last_log_file when LOG_DIR is no directory: it returns None and main
\* returns
ScanNoDir ==
  /\ pc = "scan"
  /\ ~ dirExists
  /\ pc' = "done"
  /\ outcome' = "no_log"
  /\ UNCHANGED << env, reportDirExists, reports, idx, last_log_info, lines,
                  total, processed, processed_request_time, statistics,
                  enriched_statistics, top_statistics >>

\* one iteration of the for loop of find_last_log_file
ScanStep ==
  /\ pc = "scan"
  /\ dirExists
  /\ idx <= Len(listing)
  /\ last_log_info' = ScanOne(last_log_info, listing[idx])
  /\ idx' = idx + 1
  /\ UNCHANGED << env, reportDirExists, reports, pc, lines, total, processed,
                  processed_request_time, statistics, enriched_statistics,
                  top_statistics, outcome >>

PrecheckNoUpToDate(last, template, files) ==
  IF last = None THEN "no_log"
  ELSE IF ~ template THEN "no_template"
  ELSE "running"

\* main between find_last_log_file and calculate_statistics: how it returns
\* early, "running" if it does not
Precheck(last, template, files) ==
  IF last = None THEN "no_log"
  ELSE IF ~ template THEN "no_template"
  ELSE IF last[1].date \in DOMAIN files THEN "up_to_date"
  ELSE "running"

\* find_last_log_file returns; main up to the call of calculate_statistics
ScanReturn ==
  /\ pc = "scan"
  /\ dirExists
  /\ idx > Len(listing)
  /\ outcome' = Precheck(last_log_info, templateExists, reports)
  /\ pc' = IF outcome' = "running" THEN "read" ELSE "done"
  /\ reportDirExists' = (reportDirExists \/ last_log_info # None)
  /\ UNCHANGED << env, reports, idx, last_log_info, lines, total, processed,
                  processed_request_time, statistics, enriched_statistics,
                  top_statistics >>

\* one iteration of the for loop of calculate_statistics
ReadLine ==
  /\ pc = "read"
  /\ total < log_len
  /\ \E line \in RawLines :
       LET parsed_line == process_line(line) IN
       /\ lines' = Append(lines, line)
       /\ total' = total + 1
       /\ IF parsed_line # None
          THEN /\ processed' = processed + 1
               /\ statistics' = AddSample(statistics, parsed_line[1].url,
                                          parsed_line[1].request_time)
               /\ processed_request_time' =
                    processed_request_time + parsed_line[1].request_time
          ELSE UNCHANGED << processed, statistics, processed_request_time >>
  /\ UNCHANGED << env, reportDirExists, reports, pc, idx, last_log_info,
                  enriched_statistics, top_statistics, outcome >>

\* the log is exhausted: the rest of calculate_statistics, then the sort, the
\* truncation and render_template of main
Finish ==
  /\ pc = "read"
  /\ total = log_len
  /\ pc' = "done"
  /\ IF GateApplies(errors_limit, total)
          /\ GateTrips(errors_limit, total, processed)
     THEN /\ outcome' = "ErrorsLimitExceedError"
          /\ UNCHANGED << enriched_statistics, top_statistics, reports >>
     ELSE IF DivisionByZero(statistics, processed_request_time)
     THEN /\ outcome' = "ZeroDivisionError"
          /\ UNCHANGED << enriched_statistics, top_statistics, reports >>
     ELSE /\ outcome' = "rendered"
          /\ enriched_statistics' =
               Enrich(statistics, processed, processed_request_time)
          /\ top_statistics' =
               Truncate(SortedByTimeSum(enriched_statistics'), report_size)
          /\ reports' = WriteReport(reports, last_log_info[1].date,
                                    Rendered(top_statistics'), templateExists)
  /\ UNCHANGED << env, reportDirExists, idx, last_log_info, lines, total,
                  processed, processed_request_time, statistics >>

Next == ScanNoDir \/ ScanStep \/ ScanReturn \/ ReadLine \/ Finish

Spec == Init /\ [][Next]_vars

SpecScan == InitScan /\ [][Next]_vars

\* ================================================================ claims
\* calculate_statistics was called and has ended, by a return or an exception
CalcEnded ==
  pc = "done" /\ outcome \in {"rendered", "ErrorsLimitExceedError",
                              "ZeroDivisionError"}

\* what the input is, read off the raw lines alone
Unparsable == Cardinality({k \in 1..Len(lines) : ~ lines[k].ok})
Parsed == Cardinality({k \in 1..Len(lines) : lines[k].ok})
ParsedFor(url) == Cardinality({k \in 1..Len(lines) :
                                 lines[k].ok /\ lines[k].path = url})

RECURSIVE TicksOf(_, _)
TicksOf(ls, url) ==
  IF ls = << >> THEN 0
  ELSE (IF ls[1].ok /\ ls[1].path = url THEN ls[1].request_time ELSE 0)
       + TicksOf(Tail(ls), url)

RECURSIVE TicksOfAll(_)
TicksOfAll(ls) ==
  IF ls = << >> THEN 0
  ELSE (IF ls[1].ok THEN ls[1].request_time ELSE 0) + TicksOfAll(Tail(ls))

RECURSIVE SamplesOf(_, _)
SamplesOf(ls, url) ==
  IF ls = << >> THEN << >>
  ELSE (IF ls[1].ok /\ ls[1].path = url THEN << ls[1].request_time >>
        ELSE << >>) \o SamplesOf(Tail(ls), url)

\* position of url's entry in a list of entries, 0 if it has none
Pos(s, url) ==
  IF \E k \in 1..Len(s) : s[k].url = url
  THEN CHOOSE k \in 1..Len(s) : s[k].url = url
  ELSE 0

Abs(x) == IF x < 0 THEN 0 - x ELSE x

C2_GateSkipped ==
  (CalcEnded /\ (Len(lines) = 0 \/ errors_limit = None)) =>
    outcome # "ErrorsLimitExceedError"

C2_Witness ==
  /\ CalcEnded
  /\ errors_limit = None
  /\ Unparsable = Len(lines)
  /\ Len(lines) >= 2
  /\ outcome = "rendered"

\* ---------------------------------------------------------------- C3
\* the list top is the entries of all ranked by key descending, equal keys in
\* the order of all, cut to the first n
RankedBy(top, all, n, key(_)) ==
  /\ Len(top) = (IF Len(all) < n THEN Len(all) ELSE n)
  /\ \A k \in 1..Len(top) : \E a \in 1..Len(all) : top[k] = all[a]
  /\ \A a, b \in 1..Len(all) :
       (\/ key(all[a]) > key(all[b])
        \/ key(all[a]) = key(all[b]) /\ a < b)
       => (Pos(top, all[b].url) # 0 =>
             /\ Pos(top, all[a].url) # 0
             /\ Pos(top, all[a].url) < Pos(top, all[b].url))

UnroundedSum(e) == TicksOf(lines, e.url)
RoundedSum(e) == e.time_sum

\* C3 as stated: the ranked output is sorted by the unrounded latency_sum
\* descending, equal sums in first-appearance order, cut to REPORT_SIZE.
C3_RankedByUnroundedSum ==
  outcome = "rendered" =>
    RankedBy(top_statistics, enriched_statistics, report_size, UnroundedSum)

\* what main does: the ranked output is sorted by time_sum as rounded to 3
\* decimals, descending, entries of equal rounded sum in first-appearance
\* order, cut to the first REPORT_SIZE entries.
C3_RankedByRoundedSum ==
  outcome = "rendered" =>
    RankedBy(top_statistics, enriched_statistics, report_size, RoundedSum)

\* the cut falls between two endpoints of equal rounded sum, and keeps the
\* one of the smaller unrounded sum
C3_CutBetweenEqualRoundedSums ==
  /\ outcome = "rendered"
  /\ Len(enriched_statistics) = 2
  /\ report_size = 1
  /\ enriched_statistics[1].time_sum = enriched_statistics[2].time_sum
  /\ UnroundedSum(enriched_statistics[1]) < UnroundedSum(enriched_statistics[2])
  /\ top_statistics = << enriched_statistics[1] >>

\* ---------------------------------------------------------------- C4
\* C4 as stated: with no parsed line or a zero total latency,
\* calculate_statistics never returns successfully.
C4_FailsWithoutRecords ==
  (CalcEnded /\ (Parsed = 0 \/ TicksOfAll(lines) = 0)) =>
    outcome # "rendered"

\* C4 amended: with at least one parsed line and a zero total latency,
\* calculate_statistics never returns: it raises ZeroDivisionError unless the
\* gate raised first.  With no parsed line it returns an empty result unless
\* the gate raised.
C4_FailsOnZeroLatency ==
  CalcEnded =>
    /\ (Parsed > 0 /\ TicksOfAll(lines) = 0) =>
         outcome = IF errors_limit # None /\ Unparsable > 0
                   THEN "ErrorsLimitExceedError" ELSE "ZeroDivisionError"
    /\ Parsed = 0 =>
         IF errors_limit # None /\ Unparsable > 0
         THEN outcome = "ErrorsLimitExceedError"
         ELSE outcome = "rendered" /\ enriched_statistics = << >>

C4_Witness ==
  /\ CalcEnded
  /\ Parsed = 2
  /\ TicksOfAll(lines) = 0
  /\ outcome = "ZeroDivisionError"

\* ---------------------------------------------------------------- C5
\* the entries find_last_log_file may select among the first n of the listing
ValidAmong(n) ==
  { k \in 1..n : /\ k <= Len(listing)
                 /\ MatchesFileName(listing[k])
                 /\ IsValidDate(ParseDate(listing[k].text)) }

DateAt(k) == ParseDate(listing[k].text)

\* C5: find_last_log_file returns an entry of the greatest valid date among
\* the entries whose name matches nginx-access-ui.log-<8 digits>[.gz]; other
\* names and invalid dates are never selected; without a directory or a
\* valid candidate it returns None.
C5_GreatestValidDate ==
  pc # "scan" =>
    IF ~ dirExists \/ ValidAmong(Len(listing)) = {}
    THEN last_log_info = None
    ELSE /\ last_log_info # None
         /\ \E k \in ValidAmong(Len(listing)) :
              /\ last_log_info[1].file_path = listing[k]
              /\ last_log_info[1].date = DateAt(k)
              /\ \A j \in ValidAmong(Len(listing)) :
                   ~ DateGreater(DateAt(j), DateAt(k))

\* a directory with 20230101, 20230215.gz and the later but invalid 20230230
C5_Witness ==
  /\ pc # "scan"
  /\ Len(listing) = 3
  /\ \E k \in 1..3 : listing[k] = Name(Prefix, <<2,0,2,3,0,2,3,0>>, "")
  /\ \E k \in 1..3 : listing[k] = Name(Prefix, <<2,0,2,3,0,1,0,1>>, "")
  /\ last_log_info = Some([file_path |-> Name(Prefix, <<2,0,2,3,0,2,1,5>>, ".gz"),
                           date |-> [year |-> 2023, month |-> 2, day |-> 15]])

\* --------------------------------------------------------------- C10
\* during and after the scan the selection is the first, in listing order, of
\* the entries of greatest valid date seen so far
C10_FirstOfGreatestSoFar ==
  dirExists =>
    IF ValidAmong(idx - 1) = {}
    THEN last_log_info = None
    ELSE /\ last_log_info # None
         /\ \E k \in ValidAmong(idx - 1) :
              /\ last_log_info[1].file_path = listing[k]
              /\ \A j \in ValidAmong(idx - 1) :
                   /\ ~ DateGreater(DateAt(j), DateAt(k))
                   /\ DateAt(j) = DateAt(k) => k <= j

\* a step replaces the selection only by a strictly greater date
C10_ReplacedOnlyByGreater ==
  (last_log_info # None /\ last_log_info' # last_log_info) =>
    /\ last_log_info' # None
    /\ DateGreater(last_log_info'[1].date, last_log_info[1].date)

\* C10: of several valid candidates of the same greatest date
\* find_last_log_file returns the first in listing order; a later entry
\* replaces the selection only if its date is strictly greater, so the
\* selected date never decreases during the scan.
C10_FirstOfEqualDatesWins ==
  [] C10_FirstOfGreatestSoFar /\ [][C10_ReplacedOnlyByGreater]_vars

\* 20230101.gz listed before 20230101: the .gz file is returned
C10_Witness ==
  /\ pc # "scan"
  /\ Len(listing) >= 2
  /\ listing[1] = Name(Prefix, <<2,0,2,3,0,1,0,1>>, ".gz")
  /\ listing[2] = Name(Prefix, <<2,0,2,3,0,1,0,1>>, "")
  /\ last_log_info # None
  /\ last_log_info[1].file_path = listing[1]

\* ---------------------------------------------------------------- C6
\* C6: after any sequence of lines total counts every line once, processed is
\* at most total, only parsed lines reach the counters and the samples (an
\* unparsable line changes nothing but total), the sample counts add up to
\* processed, and each report entry's count is the number of parsed lines of
\* its endpoint, with one entry per endpoint that has a sample.
C6_CountersMatchLines ==
  /\ total = Len(lines)
  /\ processed = Parsed
  /\ processed <= total
  /\ processed_request_time = TicksOfAll(lines)
  /\ \A u \in Urls :
       IF ParsedFor(u) = 0 THEN KeyIndex(statistics, u) = 0
       ELSE /\ KeyIndex(statistics, u) # 0
            /\ statistics[KeyIndex(statistics, u)].data = SamplesOf(lines, u)
  /\ \A a, b \in 1..Len(statistics) :
       statistics[a].url = statistics[b].url => a = b
  /\ Sum([k \in 1..Len(statistics) |-> Len(statistics[k].data)]) = processed
  /\ outcome = "rendered" =>
       /\ Len(enriched_statistics) =
            Cardinality({u \in Urls : ParsedFor(u) > 0})
       /\ \A k \in 1..Len(enriched_statistics) :
            /\ enriched_statistics[k].url \in Urls
            /\ enriched_statistics[k].count =
                 ParsedFor(enriched_statistics[k].url)
            /\ enriched_statistics[k].count > 0

\* an unparsable line between two parsed lines of one endpoint
C6_Witness ==
  /\ outcome = "rendered"
  /\ Len(lines) = 3
  /\ ~ lines[2].ok
  /\ Len(enriched_statistics) = 1
  /\ enriched_statistics[1].count = 2

\* ---------------------------------------------------------------- C7
\* C7: over all entries returned for a run with parsed records and a non-zero
\* total latency, count_perc sums to 100 and time_perc sums to 100, each
\* within 0.01 per entry, each share being 100 * unrounded value / run total
\* rounded to 3 decimals.
C7_SharesSumTo100 ==
  (outcome = "rendered" /\ enriched_statistics # << >>) =>
    LET n == Len(enriched_statistics)
        counts == [k \in 1..n |-> enriched_statistics[k].count_perc]
        times == [k \in 1..n |-> enriched_statistics[k].time_perc]
    IN  /\ Abs(Sum(counts) - 100 * 1000) <= 10 * n
        /\ Abs(Sum(times) - 100 * 1000) <= 10 * n
        /\ \A k \in 1..n :
             LET u == enriched_statistics[k].url IN
             /\ counts[k] = RoundHalfEven(100 * 1000 * ParsedFor(u), Parsed)
             /\ times[k] = RoundHalfEven(100 * 1000 * TicksOf(lines, u),
                                         TicksOfAll(lines))

\* three entries of 33.333 percent each: the shares sum to 99.999
C7_Witness ==
  /\ outcome = "rendered"
  /\ Len(enriched_statistics) = 3
  /\ \A k \in 1..3 : enriched_statistics[k].count_perc = 33333
  /\ \E k \in 1..3 : enriched_statistics[k].time_perc # 33333

\* ---------------------------------------------------------------- C9
\* the k-th smallest sample, by counting and not by sorting
Kth(data, k) ==
  CHOOSE x \in { data[i] : i \in 1..Len(data) } :
    /\ Cardinality({ i \in 1..Len(data) : data[i] < x }) < k
    /\ Cardinality({ i \in 1..Len(data) : data[i] <= x }) >= k

\* twice the standard median
StandardMedian2(data) ==
  IF Len(data) % 2 = 1 THEN 2 * Kth(data, (Len(data) + 1) \div 2)
  ELSE Kth(data, Len(data) \div 2) + Kth(data, Len(data) \div 2 + 1)

\* C9: each entry's latency_median is the standard median of its samples (the
\* middle one of an odd count, the mean of the two middle ones of an even
\* count), rounded to 3 decimals, whatever the order the samples arrived in;
\* [1.0, 2.0, 3.0] gives 2.0 and [1.0, 2.0] gives 1.5.
C9_StandardMedian ==
  /\ median2(<< 10000, 20000, 30000 >>) = 2 * 20000
  /\ median2(<< 10000, 20000 >>) = 2 * 15000
  /\ outcome = "rendered" =>
       \A k \in 1..Len(enriched_statistics) :
         enriched_statistics[k].time_med =
           RoundHalfEven(
             StandardMedian2(SamplesOf(lines, enriched_statistics[k].url)),
             2 * TicksPerMilli)

\* samples 0.0000, 0.0020, 0.0000 arrive with the greatest in the middle
C9_Witness ==
  /\ outcome = "rendered"
  /\ Len(enriched_statistics) = 1
  /\ SamplesOf(lines, enriched_statistics[1].url) = << 0, 20, 0 >>
  /\ enriched_statistics[1].time_med = 0

\* ---------------------------------------------------------------- C8
\* a step that changes the report files is the end of a run that found a
\* log, a template and no report of the log's date, and whose statistics
\* were computed; it adds the report of that date and changes no other
C8_OnlyNewReportWritten ==
  reports' # reports =>
    /\ last_log_info # None
    /\ templateExists
    /\ last_log_info[1].date \notin DOMAIN reports
    /\ outcome' = "rendered"
    /\ DOMAIN reports' = DOMAIN reports \cup {last_log_info[1].date}
    /\ \A d \in DOMAIN reports : reports'[d] = reports[d]

\* a run that ended any other way holds no report written by this run
C8_NoReportOtherwise ==
  (\E d \in DOMAIN reports : reports[d].run = "current") =>
    /\ pc = "done"
    /\ outcome = "rendered"
    /\ \A d \in DOMAIN reports :
         reports[d].run = "current" <=> d = last_log_info[1].date

\* C8: main creates or modifies a report file only in a run where a log was
\* found, the template exists, no report of the log's date exists and
\* calculate_statistics returned; in every other run every earlier report is
\* unchanged and no report is created.
C8_ReportsFrame ==
  [] C8_NoReportOtherwise /\ [][C8_OnlyNewReportWritten]_vars

\* a report was written next to an earlier one, which is unchanged
C8_Witness ==
  /\ pc = "done"
  /\ outcome = "rendered"
  /\ \E d \in DOMAIN reports : reports[d] = Previous
  /\ reports[last_log_info[1].date] = Rendered(top_statistics)

====
